---- MODULE Spec2Model ----
(***************************************************************************)
(* Arbitrage monitor: pools -> rate graph -> Bellman-Ford negative cycle   *)
(* -> deduplicated opportunity report.  Two variants of the same engine    *)
(* live in the repository and both are modelled, selected by `variant`:    *)
(*   "disc" : src/arbitrage_bot/arb/arbitrage_discovery_bot.py (monitor)   *)
(*   "bot"  : src/arbitrage_bot/arbitrage_bot.py (monitor_arbitrage)       *)
(*                                                                         *)
(* Numbers.  The code works on Python floats; the model is exact.          *)
(*  - A reserve is a fixed-point count of 10^-ChainDecimals units, and the *)
(*    provider's raw reserves are 0 or powers of ten, so every quotient of *)
(*    two non-zero reserves is a power of ten.                             *)
(*  - A price is 0 or 10^exp * 0.997; an edge weight -ln(price) is held in *)
(*    units of -ln(0.997): weight = FeeUnit - exp * LogTen, with           *)
(*    LogTen = round(ln 10 / -ln 0.997).  Sums of fewer than LogTen such   *)
(*    weights compare exactly as the real sums do.                         *)
(*  - A gain exp(-w) is held as its logarithm -w in the same unit.         *)
(* Optional values: None is <<>>, a present value x is <<x>>.              *)
(***************************************************************************)
EXTENDS Integers, Sequences, FiniteSets, TLC

VARIABLES
    variant,    \* which program runs: "disc" or "bot"
    verbose,    \* LOG_ARBITRAGE (read by "disc" only)
    chain,      \* what the chain answers for token0()/token1() of each pool address
    source,     \* the pool address lines of the pairs file (abis.txt)
    pools,      \* the Pool objects the monitor holds
    pos,        \* build loop: index of the next pool of `pools` to refresh
    nodes,      \* build result: set of tokens
    edges,      \* build result: sequence of [u, v, w, pool]; pool is an index of `pools`
    cyc,        \* find_negative_cycle result: token sequence
    cycp,       \* find_negative_cycle result: pool sequence (indices of `pools`)
    seen,       \* the monitor's set of reported keys
    pc,         \* position of the monitor loop
    tick,       \* number of completed loop iterations
    faults,     \* number of failed provider calls so far
    hist        \* observation record (never read by the program's actions)

vars == <<variant, verbose, chain, source, pools, pos, nodes, edges, cyc, cycp,
          seen, pc, tick, faults, hist>>

----------------------------------------------------------------------------
(* Bounds of the model and constants of the program *)

MaxTicks == 2
MaxFaults == 1
ChainDecimals == 1

FeeUnit == 1
LogTen == 766

Variants == {"disc", "bot"}
Tokens == {"A", "B", "C"}
AllAddresses == <<"p1", "p2">>
\* raw (reserve0, reserve1) answers of getReserves(): both zero, one zero,
\* equal, and a factor of ten either way
ReservePairs == {<<0, 0>>, <<0, 1>>, <<1, 0>>, <<1, 1>>, <<1, 10>>, <<10, 1>>}

None == <<>>
Some(x) == <<x>>
Val(o) == o[1]

TokenPairs == {tp \in Tokens \X Tokens : tp[1] # tp[2]}

\* token0/token1 of the pools on chain: a second pool on the same pair in the
\* same or in the opposite orientation, or a pool that shares one token
ChainLayouts ==
    {[a \in {"p1", "p2"} |-> IF a = "p1" THEN <<"A", "B">> ELSE second] :
        second \in {<<"A", "B">>, <<"B", "A">>, <<"B", "C">>}}

RECURSIVE Pow10(_)
Pow10(k) == IF k = 0 THEN 1 ELSE 10 * Pow10(k - 1)

\* log10 of a power of ten
RECURSIVE Log10(_)
Log10(x) == IF x <= 1 THEN 0 ELSE 1 + Log10(x \div 10)

RECURSIVE SumSeq(_)
SumSeq(s) == IF s = <<>> THEN 0 ELSE Head(s) + SumSeq(Tail(s))

Reverse(s) == [j \in 1..Len(s) |-> s[Len(s) + 1 - j]]

----------------------------------------------------------------------------
(* The chain data provider: outcome of one contract call *)

Outcomes == {"ok", "bad", "revert", "transport"}
CallNames == {"token0", "token1", "symbol0", "decimals0", "symbol1", "decimals1",
              "getReserves"}

\* the calls that fail during one refresh, each with its kind
FaultPlans ==
    UNION {[F -> Outcomes \ {"ok"}] :
             F \in {G \in SUBSET CallNames : Cardinality(G) <= MaxFaults}}

\* One refresh's worth of provider behaviour: an outcome per call and the raw reserves.
Answer(plan, r0, r1) ==
    [calls |-> [c \in CallNames |-> IF c \in DOMAIN plan THEN plan[c] ELSE "ok"],
     r0 |-> r0, r1 |-> r1]

\* except (BadFunctionCallOutput, ContractLogicError) in "disc";
\* except BadFunctionCallOutput in "bot"
CaughtDisc(o) == o \in {"bad", "revert"}
CaughtBot(o) == o = "bad"

----------------------------------------------------------------------------
(* Pool *)

\* Pool.__init__
NewPool(addr) ==
    [address |-> addr, token0 |-> None, token1 |-> None,
     token0_symbol |-> None, token1_symbol |-> None,
     token0_decimals |-> None, token1_decimals |-> None,
     reserve0 |-> 0, reserve1 |-> 0, is_valid |-> TRUE]

\* raw / 10 ** decimals as a fixed-point count of 10^-ChainDecimals units
Scaled(raw, dec) == raw * Pow10(ChainDecimals - dec)

\* result of a call that may raise: the pool as left behind, the exception
\* that leaves the call ("none" when it returns) and the provider calls made
Ret(p, exc, calls) == [pool |-> p, exc |-> exc, calls |-> calls]

\* "disc" fetch_token_info: a failed read caught into None, anything else raised
InfoDisc(symOut, decOut, tok, sc, dc) ==
    IF symOut = "transport"
    THEN [exc |-> symOut, symbol |-> None, decimals |-> None, calls |-> {sc}]
    ELSE IF decOut = "transport"
    THEN [exc |-> decOut, symbol |-> None, decimals |-> None, calls |-> {sc, dc}]
    ELSE [exc |-> "none",
          symbol |-> IF symOut = "ok" THEN Some(tok) ELSE None,
          decimals |-> IF decOut = "ok" THEN Some(ChainDecimals) ELSE None,
          calls |-> {sc, dc}]

\* "bot" fetch_token_info: every failed read is raised
InfoBot(symOut, decOut, tok, sc, dc) ==
    IF symOut # "ok"
    THEN [exc |-> symOut, symbol |-> None, decimals |-> None, calls |-> {sc}]
    ELSE IF decOut # "ok"
    THEN [exc |-> decOut, symbol |-> None, decimals |-> None, calls |-> {sc, dc}]
    ELSE [exc |-> "none", symbol |-> Some(tok), decimals |-> Some(ChainDecimals),
          calls |-> {sc, dc}]

Invalid(p) == [p EXCEPT !.is_valid = FALSE]

\* "disc": r /= 10 ** d only when d is truthy (neither None nor 0)
ScaleDisc(raw, d) == IF d = None \/ Val(d) = 0 THEN Scaled(raw, 0) ELSE Scaled(raw, Val(d))

\* "disc" Pool.update, the reserve part
ReservesDisc(p, a, calls) ==
    LET o == a.calls["getReserves"]
        cs == calls \cup {"getReserves"}
    IN  IF o = "ok"
        THEN Ret([p EXCEPT !.reserve0 = ScaleDisc(a.r0, p.token0_decimals),
                           !.reserve1 = ScaleDisc(a.r1, p.token1_decimals)], "none", cs)
        ELSE IF CaughtDisc(o) THEN Ret(Invalid(p), "none", cs)
        ELSE Ret(p, o, cs)

\* "disc" Pool.update
UpdateDisc(p, a, toks) ==
    IF ~p.is_valid THEN Ret(p, "none", {})
    ELSE IF p.token0 # None THEN ReservesDisc(p, a, {})
    ELSE LET o0 == a.calls["token0"]
             o1 == a.calls["token1"]
             p1 == [p EXCEPT !.token0 = Some(toks[1])]
             p2 == [p1 EXCEPT !.token1 = Some(toks[2])]
             i0 == InfoDisc(a.calls["symbol0"], a.calls["decimals0"], toks[1],
                            "symbol0", "decimals0")
             i1 == InfoDisc(a.calls["symbol1"], a.calls["decimals1"], toks[2],
                            "symbol1", "decimals1")
             p3 == [p2 EXCEPT !.token0_symbol = i0.symbol,
                              !.token0_decimals = i0.decimals,
                              !.token1_symbol = i1.symbol,
                              !.token1_decimals = i1.decimals]
         IN  IF o0 # "ok"
             THEN IF CaughtDisc(o0) THEN Ret(Invalid(p), "none", {"token0"})
                  ELSE Ret(p, o0, {"token0"})
             ELSE IF o1 # "ok"
             THEN IF CaughtDisc(o1) THEN Ret(Invalid(p1), "none", {"token0", "token1"})
                  ELSE Ret(p1, o1, {"token0", "token1"})
             ELSE IF i0.exc # "none"
             THEN Ret(p2, i0.exc, {"token0", "token1"} \cup i0.calls)
             ELSE IF i1.exc # "none"
             THEN Ret(p2, i1.exc, {"token0", "token1"} \cup i0.calls \cup i1.calls)
             ELSE ReservesDisc(p3, a, {"token0", "token1"} \cup i0.calls \cup i1.calls)

\* "bot" Pool.update_tokens_and_reserves, the reserve part
ReservesBot(p, a, calls) ==
    LET o == a.calls["getReserves"]
        cs == calls \cup {"getReserves"}
    IN  IF o = "ok"
        THEN IF p.token0_decimals = None
             THEN Ret(p, "TypeError", cs)
             ELSE IF p.token1_decimals = None
             THEN Ret([p EXCEPT !.reserve0 = Scaled(a.r0, Val(p.token0_decimals))],
                      "TypeError", cs)
             ELSE Ret([p EXCEPT !.reserve0 = Scaled(a.r0, Val(p.token0_decimals)),
                                !.reserve1 = Scaled(a.r1, Val(p.token1_decimals))],
                      "none", cs)
        ELSE IF CaughtBot(o) THEN Ret(Invalid(p), "none", cs)
        ELSE Ret(p, o, cs)

\* "bot" Pool.update_tokens_and_reserves
UpdateBot(p, a, toks) ==
    IF ~p.is_valid THEN Ret(p, "none", {})
    ELSE IF p.token0 # None THEN ReservesBot(p, a, {})
    ELSE LET o0 == a.calls["token0"]
             o1 == a.calls["token1"]
             p1 == [p EXCEPT !.token0 = Some(toks[1])]
             p2 == [p1 EXCEPT !.token1 = Some(toks[2])]
             i0 == InfoBot(a.calls["symbol0"], a.calls["decimals0"], toks[1],
                           "symbol0", "decimals0")
             i1 == InfoBot(a.calls["symbol1"], a.calls["decimals1"], toks[2],
                           "symbol1", "decimals1")
             p3 == [p2 EXCEPT !.token0_decimals = i0.decimals,
                              !.token1_decimals = i1.decimals,
                              !.token0_symbol = i0.symbol,
                              !.token1_symbol = i1.symbol]
         IN  IF o0 # "ok"
             THEN IF CaughtBot(o0) THEN Ret(Invalid(p), "none", {"token0"})
                  ELSE Ret(p, o0, {"token0"})
             ELSE IF o1 # "ok"
             THEN IF CaughtBot(o1) THEN Ret(Invalid(p1), "none", {"token0", "token1"})
                  ELSE Ret(p1, o1, {"token0", "token1"})
             ELSE IF i0.exc # "none"
             THEN IF CaughtBot(i0.exc)
                  THEN Ret(Invalid(p2), "none", {"token0", "token1"} \cup i0.calls)
                  ELSE Ret(p2, i0.exc, {"token0", "token1"} \cup i0.calls)
             ELSE IF i1.exc # "none"
             THEN IF CaughtBot(i1.exc)
                  THEN Ret(Invalid(p2), "none",
                           {"token0", "token1"} \cup i0.calls \cup i1.calls)
                  ELSE Ret(p2, i1.exc, {"token0", "token1"} \cup i0.calls \cup i1.calls)
             ELSE ReservesBot(p3, a, {"token0", "token1"} \cup i0.calls \cup i1.calls)

\* a refresh that tries an invalid pool again
updateRetry(v, p, a, toks) ==
    IF v = "disc" THEN UpdateDisc([p EXCEPT !.is_valid = TRUE], a, toks)
    ELSE UpdateBot([p EXCEPT !.is_valid = TRUE], a, toks)

update(v, p, a, toks) == IF v = "disc" THEN UpdateDisc(p, a, toks) ELSE UpdateBot(p, a, toks)

----------------------------------------------------------------------------
(* Prices *)

ZeroPrice == [zero |-> TRUE, exp |-> 0]

\* a ratio that takes a zero numerator for the smallest positive one
FeeRatioNeverZero(num, den) == [zero |-> FALSE, exp |-> Log10(num) - Log10(den)]

\* (num / den) * 0.997 for den # 0
FeeRatio(num, den) ==
    IF num = 0 THEN ZeroPrice ELSE [zero |-> FALSE, exp |-> Log10(num) - Log10(den)]

\* Pool.price0_to_1 / Pool.price_token0_to_token1
price0_to_1(p) == IF p.reserve0 = 0 THEN ZeroPrice ELSE FeeRatio(p.reserve1, p.reserve0)

\* Pool.price1_to_0 / Pool.price_token1_to_token0
price1_to_0(p) == IF p.reserve1 = 0 THEN ZeroPrice ELSE FeeRatio(p.reserve0, p.reserve1)

\* price > 0
Positive(price) == ~price.zero

\* -math.log(price) for price > 0
NegLog(price) == FeeUnit - price.exp * LogTen

----------------------------------------------------------------------------
(* Graph build *)

Edge(u, v, w, k) == [u |-> u, v |-> v, w |-> w, pool |-> k]

\* a build that adds token0 only
AddNodesFirstOnly(ns, p) == ns \cup {Val(p.token0)}

\* nodes.add(t0); nodes.add(t1)
AddNodes(ns, p) == ns \cup {Val(p.token0), Val(p.token1)}

\* the two conditional edges.append of one pool, forward first
AddEdges(es, p, k) ==
    LET p01 == price0_to_1(p)
        p10 == price1_to_0(p)
        fwd == IF Positive(p01)
               THEN <<Edge(Val(p.token0), Val(p.token1), NegLog(p01), k)>> ELSE <<>>
        bwd == IF Positive(p10)
               THEN <<Edge(Val(p.token1), Val(p.token0), NegLog(p10), k)>> ELSE <<>>
    IN  es \o fwd \o bwd

\* a build that skips the pools without token addresses instead of the
\* pools marked invalid
AddPoolStale(g, p, k) ==
    IF p.token0 = None \/ p.token1 = None THEN g
    ELSE [nodes |-> AddNodes(g.nodes, p), edges |-> AddEdges(g.edges, p, k)]

\* body of the build loop after the refresh of pool k: skip an invalid pool,
\* otherwise add its tokens and its edges
AddPool(g, p, k) ==
    IF ~p.is_valid THEN g
    ELSE [nodes |-> AddNodes(g.nodes, p), edges |-> AddEdges(g.edges, p, k)]

----------------------------------------------------------------------------
(* find_negative_cycle *)

\* idx = {t: i for i, t in enumerate(nodes)}: set iteration order is not fixed
Indexings(ns) ==
    {f \in [ns -> 0..(Cardinality(ns) - 1)] : \A s, t \in ns : f[s] = f[t] => s = t}

\* inv = {i: t for t, i in idx.items()}
InvOf(idx, i) == CHOOSE t \in DOMAIN idx : idx[t] = i

\* dist and parent kept from the call before (lists made once, outside the
\* function) instead of made anew
InitBFStale(n) ==
    IF "first" \in DOMAIN hist /\ hist.first # None
    THEN [dist |-> Val(hist.first).dist, parent |-> Val(hist.first).parent,
          updated |-> FALSE, passes |-> 0]
    ELSE [dist |-> [i \in 0..(n - 1) |-> 0], parent |-> [i \in 0..(n - 1) |-> None],
          updated |-> FALSE, passes |-> 0]

\* dist = [0.0] * len(nodes); parent = [None] * len(nodes)
InitBF(n) ==
    [dist |-> [i \in 0..(n - 1) |-> 0], parent |-> [i \in 0..(n - 1) |-> None],
     updated |-> FALSE, passes |-> 0]

\* dist[ui] + w < dist[vi]
Relaxes(st, e, idx) == st.dist[idx[e.u]] + e.w < st.dist[idx[e.v]]

\* one relaxation of edge e
RelaxEdge(st, e, idx) ==
    IF Relaxes(st, e, idx)
    THEN [st EXCEPT !.dist[idx[e.v]] = st.dist[idx[e.u]] + e.w,
                    !.parent[idx[e.v]] = <<idx[e.u], e.pool>>,
                    !.updated = TRUE]
    ELSE st

\* for u, v, w, p in edges: relax, from edge k on
RECURSIVE RelaxPass(_, _, _, _)
RelaxPass(st, es, idx, k) ==
    IF k > Len(es) THEN st ELSE RelaxPass(RelaxEdge(st, es[k], idx), es, idx, k + 1)

\* one relaxation pass too few
NumPassesShort(n) == n - 2

\* range(len(nodes) - 1)
NumPasses(n) == n - 1

\* the relaxation passes; `early` is the bot's break on a pass without update
RECURSIVE RunPasses(_, _, _, _, _)
RunPasses(st, es, idx, left, early) ==
    IF left <= 0 THEN st
    ELSE LET s1 == RelaxPass([st EXCEPT !.updated = FALSE], es, idx, 1)
             s2 == [s1 EXCEPT !.passes = s1.passes + 1]
         IN  IF early /\ ~s2.updated THEN s2
             ELSE RunPasses(s2, es, idx, left - 1, early)

\* a detection pass that scans the targets in index order: the relaxing edge
\* whose target has the smallest index, the first such in edge order
FirstRelaxByIndex(st, es, idx) ==
    LET hits == {k \in 1..Len(es) : Relaxes(st, es[k], idx)}
        low == {k \in hits : \A j \in hits : idx[es[k].v] <= idx[es[j].v]}
    IN  IF hits = {} THEN 0 ELSE CHOOSE k \in low : \A j \in low : k <= j

\* detection pass: position of the first edge that still relaxes, 0 if none
FirstRelax(st, es, idx) ==
    LET hits == {k \in 1..Len(es) : Relaxes(st, es[k], idx)}
    IN  IF hits = {} THEN 0 ELSE CHOOSE k \in hits : \A j \in hits : k <= j

\* a search that starts collecting at the node the detection pass found,
\* without walking back first
BackNone(parent, vi, left) == [exc |-> "none", at |-> vi]

\* "disc": for _ in range(len(nodes)): vi = parent[vi][0]
\* subscripting None raises TypeError
RECURSIVE BackDisc(_, _, _)
BackDisc(parent, vi, left) ==
    IF left = 0 THEN [exc |-> "none", at |-> vi]
    ELSE IF parent[vi] = None THEN [exc |-> "TypeError", at |-> vi]
    ELSE BackDisc(parent, parent[vi][1], left - 1)

\* "bot": for _ in range(N): prev = parent[start]; if not prev: break; start = prev[0]
RECURSIVE BackBot(_, _, _)
BackBot(parent, start, left) ==
    IF left = 0 THEN [exc |-> "none", at |-> start]
    ELSE IF parent[start] = None THEN [exc |-> "none", at |-> start]
    ELSE BackBot(parent, parent[start][1], left - 1)

\* a collecting loop that appends the token of the predecessor instead of the
\* token of the current node
RECURSIVE CollectSkewed(_, _, _, _, _, _, _)
CollectSkewed(parent, idx, cur, start, toks, pls, fuel) ==
    IF parent[cur] = None THEN [exc |-> "none", toks |-> toks, pls |-> pls]
    ELSE IF fuel = 0 THEN [exc |-> "hang", toks |-> toks, pls |-> pls]
    ELSE LET t2 == Append(toks, InvOf(idx, parent[cur][1]))
             p2 == Append(pls, parent[cur][2])
             nxt == parent[cur][1]
         IN  IF nxt = start THEN [exc |-> "none", toks |-> t2, pls |-> p2]
             ELSE CollectSkewed(parent, idx, nxt, start, t2, p2, fuel - 1)

\* the collecting while-loop, both variants: stops on a None parent or on
\* coming back to `start`.  More than n iterations without either means the
\* walk circles without ever meeting `start` again: the loop never ends.
RECURSIVE Collect(_, _, _, _, _, _, _)
Collect(parent, idx, cur, start, toks, pls, fuel) ==
    IF parent[cur] = None THEN [exc |-> "none", toks |-> toks, pls |-> pls]
    ELSE IF fuel = 0 THEN [exc |-> "hang", toks |-> toks, pls |-> pls]
    ELSE LET t2 == Append(toks, InvOf(idx, cur))
             p2 == Append(pls, parent[cur][2])
             nxt == parent[cur][1]
         IN  IF nxt = start THEN [exc |-> "none", toks |-> t2, pls |-> p2]
             ELSE Collect(parent, idx, nxt, start, t2, p2, fuel - 1)

NoCycle(st) == [exc |-> "none", cycle |-> <<>>, pools |-> <<>>, hit |-> 0,
                passes |-> st.passes, parent |-> st.parent, dist |-> st.dist,
                land |-> None]

\* find_negative_cycle of variant v on (ns, es) under the indexing idx
find_negative_cycle(v, ns, es, idx) ==
    LET n == Cardinality(ns)
        st == RunPasses(InitBF(n), es, idx, NumPasses(n), v = "bot")
        hit == FirstRelax(st, es, idx)
    IN  IF hit = 0 THEN NoCycle(st)
        ELSE LET vi == idx[es[hit].v]
                 b == IF v = "disc" THEN BackDisc(st.parent, vi, n)
                      ELSE BackBot(st.parent, vi, n)
                 c == Collect(st.parent, idx, b.at, b.at, <<>>, <<>>, n + 1)
             IN  IF b.exc # "none"
                 THEN [NoCycle(st) EXCEPT !.exc = b.exc, !.hit = hit]
                 ELSE IF c.exc # "none"
                 THEN [NoCycle(st) EXCEPT !.exc = c.exc, !.hit = hit, !.land = Some(b.at)]
                 ELSE [exc |-> "none",
                       cycle |-> Reverse(Append(c.toks, InvOf(idx, b.at))),
                       pools |-> Reverse(c.pls),
                       hit |-> hit, passes |-> st.passes, parent |-> st.parent,
                       dist |-> st.dist, land |-> Some(b.at)]

----------------------------------------------------------------------------
(* Monitor loop *)

\* load_pool_addresses() reads the pairs file anew; POOL_ADDRESSES was read at import
load_pool_addresses == source

\* [Pool(a) for a in addrs]
MakePools(addrs) == [j \in 1..Len(addrs) |-> NewPool(addrs[j])]

\* where an exception raised inside the loop body goes: "disc" wraps the body
\* in try/except Exception and goes on to time.sleep; "bot" has no handler,
\* the exception leaves monitor_arbitrage
Handler(v) == IF v = "disc" THEN "sleep" ELSE "dead"

\* a monitor without the seen-set test
ShouldReportAlways(v, key, sn, vb) == TRUE

\* key not in seen or LOG_ARBITRAGE ("disc"); key not in seen_cycles ("bot")
ShouldReport(v, key, sn, vb) == key \notin sn \/ (v = "disc" /\ vb)

\* a detection that tests nothing before reporting
FoundAlways(c) == TRUE

\* if cyc: an empty list is falsy
Found(c) == c # <<>>

\* next(w for u, v, w, _ in edges if u == cyc[0] and v == cyc[1])
FirstEdgeWeight(c, es) ==
    LET hits == {k \in 1..Len(es) : es[k].u = c[1] /\ es[k].v = c[2]}
    IN  IF es = <<>> THEN [exc |-> "StopIteration", w |-> 0]
        ELSE IF Len(c) < 2 THEN [exc |-> "IndexError", w |-> 0]
        ELSE IF hits = {} THEN [exc |-> "StopIteration", w |-> 0]
        ELSE [exc |-> "none", w |-> es[CHOOSE k \in hits : \A j \in hits : k <= j].w]

\* gain = math.exp(-w), held as ln(gain)
Gain(c, es) ==
    LET f == FirstEdgeWeight(c, es) IN [exc |-> f.exc, gain |-> 0 - f.w]

NoCounts == [k \in {} |-> 0]
Count(f, k) == IF k \in DOMAIN f THEN f[k] ELSE 0
Bump(f, k) == [x \in DOMAIN f \cup {k} |-> IF x = k THEN Count(f, k) + 1 ELSE f[x]]

\* hist: what an observer of the run has seen.
\*   step        last step of the current loop body ("" between iterations)
\*   exc         the exception raised in the current iteration, "none" if none
\*   last, fail, raw   the pool refreshed last, its failed calls, the raw reserves read
\*   contrib     the pools that added their tokens to the current build
\*   nowInvalid / wasInvalid   addresses marked invalid in this / an earlier iteration
\*   hit         position of the edge that relaxed in the detection pass (0: none)
\*   event       the opportunity event of this iteration
\*   detected / emitted   per key: iterations that found it / events printed for it
TickHist(h) ==
    [h EXCEPT !.step = "", !.exc = "none", !.contrib = {}, !.fail = {}, !.last = 0,
              !.raw = <<0, 0>>, !.hit = 0, !.event = None,
              !.wasInvalid = h.wasInvalid \cup h.nowInvalid, !.nowInvalid = {}]

InitHist ==
    [step |-> "", exc |-> "none", wasInvalid |-> {}, nowInvalid |-> {}, contrib |-> {},
     fail |-> {}, last |-> 0, raw |-> <<0, 0>>, hit |-> 0, event |-> None,
     detected |-> NoCounts, emitted |-> NoCounts]

Prefixes(s) == {SubSeq(s, 1, n) : n \in 0..Len(s)}

Init ==
    /\ variant \in Variants
    /\ verbose \in (IF variant = "disc" THEN BOOLEAN ELSE {FALSE})
    /\ chain \in ChainLayouts
    /\ source \in Prefixes(AllAddresses)
    /\ pools = IF variant = "bot" THEN MakePools(source) ELSE <<>>
    /\ pos = 1
    /\ nodes = {}
    /\ edges = <<>>
    /\ cyc = <<>>
    /\ cycp = <<>>
    /\ seen = {}
    /\ pc = "tick"
    /\ tick = 0
    /\ faults = 0
    /\ hist = InitHist

\* the pairs file grows by one line (the discovery scanner appends to it)
SourceAppend ==
    /\ pc = "tick"
    /\ Len(source) < Len(AllAddresses)
    /\ source' = Append(source, AllAddresses[Len(source) + 1])
    /\ UNCHANGED <<variant, verbose, chain, pools, pos, nodes, edges, cyc, cycp, seen,
                   pc, tick, faults, hist>>

\* top of the loop body: "disc" rebuilds its Pool list from the file, "bot"
\* keeps the list made before the loop; the build starts with nodes, edges empty
TickStart ==
    /\ pc = "tick"
    /\ tick < MaxTicks
    /\ pools' = IF variant = "disc" THEN MakePools(load_pool_addresses) ELSE pools
    /\ pos' = 1
    /\ nodes' = {}
    /\ edges' = <<>>
    /\ pc' = IF Len(pools') = 0 THEN "find" ELSE "build"
    /\ UNCHANGED <<variant, verbose, chain, source, cyc, cycp, seen, tick, faults, hist>>

\* the provider's behaviour during one refresh, told once: a failure is
\* recorded only on a call that is made, and reserves only when they are read
PlanFits(plan, calls) == DOMAIN plan \subseteq calls

ReadsReserves(plan, calls) == "getReserves" \in calls /\ "getReserves" \notin DOMAIN plan

\* one iteration of the build loop: refresh pool `pos`, then add it to the graph
BuildStep ==
    /\ pc = "build"
    /\ \E plan \in FaultPlans :
        LET p == pools[pos]
            toks == chain[p.address]
            made == update(variant, p, Answer(plan, 0, 0), toks).calls
        IN  /\ faults + Cardinality(DOMAIN plan) <= MaxFaults
            /\ PlanFits(plan, made)
            /\ \E rp \in (IF ReadsReserves(plan, made) THEN ReservePairs ELSE {<<0, 0>>}) :
                LET r == update(variant, p, Answer(plan, rp[1], rp[2]), toks)
                    g == AddPool([nodes |-> nodes, edges |-> edges], r.pool, pos)
                    marked == p.is_valid /\ ~r.pool.is_valid
                IN  /\ faults' = faults + Cardinality(DOMAIN plan)
                    /\ pools' = [pools EXCEPT ![pos] = r.pool]
                    /\ hist' = [hist EXCEPT
                                  !.step = "build",
                                  !.last = pos,
                                  !.raw = rp,
                                  !.fail = {<<c, plan[c]>> : c \in DOMAIN plan},
                                  !.exc = r.exc,
                                  !.nowInvalid = IF marked THEN @ \cup {p.address} ELSE @,
                                  !.contrib = IF r.exc = "none" /\ r.pool.is_valid
                                              THEN @ \cup {pos} ELSE @]
                    /\ IF r.exc # "none"
                       THEN /\ pc' = Handler(variant)
                            /\ UNCHANGED <<pos, nodes, edges>>
                       ELSE /\ nodes' = g.nodes
                            /\ edges' = g.edges
                            /\ pos' = pos + 1
                            /\ pc' = IF pos = Len(pools) THEN "find" ELSE "build"
    /\ UNCHANGED <<variant, verbose, chain, source, cyc, cycp, seen, tick>>

\* cyc, cycp = find_negative_cycle(nodes, edges)
Find ==
    /\ pc = "find"
    /\ \E idx \in Indexings(nodes) :
        LET r == find_negative_cycle(variant, nodes, edges, idx)
        IN  /\ cyc' = r.cycle
            /\ cycp' = r.pools
            /\ hist' = [hist EXCEPT !.step = "find", !.exc = r.exc, !.hit = r.hit]
            /\ pc' = IF r.exc = "none" THEN "report"
                     ELSE IF r.exc = "hang" THEN "hung" ELSE Handler(variant)
    /\ UNCHANGED <<variant, verbose, chain, source, pools, pos, nodes, edges, seen,
                   tick, faults>>

\* if cyc: key; if new or verbose: seen.add(key); gain; print the event.
\* key = "→".join(cyc) is one-to-one on sequences of token addresses (no address
\* holds the separator) and is held as the sequence itself.
Report ==
    /\ pc = "report"
    /\ LET key == cyc
           g == Gain(cyc, edges)
           found == Found(cyc)
           emit == found /\ ShouldReport(variant, key, seen, verbose)
           h == [hist EXCEPT !.step = "report",
                             !.detected = IF found THEN Bump(@, key) ELSE @]
       IN  /\ seen' = IF emit THEN seen \cup {key} ELSE seen
           /\ IF emit /\ g.exc # "none"
              THEN /\ pc' = Handler(variant)
                   /\ hist' = [h EXCEPT !.exc = g.exc]
              ELSE /\ pc' = "sleep"
                   /\ hist' = IF emit
                              THEN [h EXCEPT !.emitted = Bump(@, key),
                                             !.event = Some([key |-> key, pools |-> cycp,
                                                             gain |-> g.gain])]
                              ELSE h
    /\ UNCHANGED <<variant, verbose, chain, source, pools, pos, nodes, edges, cyc, cycp,
                   tick, faults>>

\* time.sleep(interval), then the next iteration.  The locals of the finished
\* iteration are dead (each is assigned again before it is read) and are
\* cleared here, with "disc"'s Pool list, which the next iteration replaces.
Sleep ==
    /\ pc = "sleep"
    /\ tick' = tick + 1
    /\ pc' = "tick"
    /\ pools' = IF variant = "disc" THEN <<>> ELSE pools
    /\ pos' = 1
    /\ nodes' = {}
    /\ edges' = <<>>
    /\ cyc' = <<>>
    /\ cycp' = <<>>
    /\ hist' = TickHist(hist)
    /\ UNCHANGED <<variant, verbose, chain, source, seen, faults>>

Next == SourceAppend \/ TickStart \/ BuildStep \/ Find \/ Report \/ Sleep

Spec == Init /\ [][Next]_vars

----------------------------------------------------------------------------
(* build and find_negative_cycle on their own: one build over up to three  *)
(* pools on any pairs of three tokens, the provider answering every call,  *)
(* then one search                                                         *)

GraphAddresses == <<"p1", "p2", "p3">>

GraphLayouts ==
    {c \in [{"p1", "p2", "p3"} -> TokenPairs] : c["p1"] = <<"A", "B">>}

InitGraph ==
    /\ variant \in Variants
    /\ verbose = FALSE
    /\ chain \in GraphLayouts
    /\ source \in Prefixes(GraphAddresses) \ {<<>>}
    /\ pools = MakePools(source)
    /\ pos = 1
    /\ nodes = {}
    /\ edges = <<>>
    /\ cyc = <<>>
    /\ cycp = <<>>
    /\ seen = {}
    /\ pc = "build"
    /\ tick = 0
    /\ faults = MaxFaults
    /\ hist = InitHist

NextGraph == BuildStep \/ Find

SpecGraph == InitGraph /\ [][NextGraph]_vars

----------------------------------------------------------------------------
(* find_negative_cycle called twice in a row on one built graph.  The node  *)
(* set is the same object in both calls and is not changed in between, so   *)
(* enumerate(nodes) gives both calls the same indexing.  hist.first and     *)
(* hist.second hold what each call computed.                                *)

InitSearch ==
    /\ variant \in Variants
    /\ verbose = FALSE
    /\ chain \in GraphLayouts
    /\ source \in Prefixes(GraphAddresses) \ {<<>>}
    /\ pools = MakePools(source)
    /\ pos = 1
    /\ nodes = {}
    /\ edges = <<>>
    /\ cyc = <<>>
    /\ cycp = <<>>
    /\ seen = {}
    /\ pc = "build"
    /\ tick = 0
    /\ faults = MaxFaults
    /\ hist = InitHist @@ [order |-> None, first |-> None, second |-> None]

FirstCall ==
    /\ pc = "find"
    /\ \E idx \in Indexings(nodes) :
        LET r == find_negative_cycle(variant, nodes, edges, idx)
        IN  /\ cyc' = r.cycle
            /\ cycp' = r.pools
            /\ hist' = [hist EXCEPT !.step = "find", !.exc = r.exc, !.hit = r.hit,
                                    !.order = Some(idx), !.first = Some(r)]
    /\ pc' = "again"
    /\ UNCHANGED <<variant, verbose, chain, source, pools, pos, nodes, edges, seen,
                   tick, faults>>

SecondCall ==
    /\ pc = "again"
    /\ LET r == find_negative_cycle(variant, nodes, edges, Val(hist.order))
       IN  /\ cyc' = r.cycle
           /\ cycp' = r.pools
           /\ hist' = [hist EXCEPT !.step = "again", !.exc = r.exc, !.hit = r.hit,
                                   !.second = Some(r)]
    /\ pc' = "done"
    /\ UNCHANGED <<variant, verbose, chain, source, pools, pos, nodes, edges, seen,
                   tick, faults>>

NextSearch == BuildStep \/ FirstCall \/ SecondCall

SpecSearch == InitSearch /\ [][NextSearch]_vars

----------------------------------------------------------------------------
(* Vocabulary of the properties *)

\* closed walks of at most n edges, as sequences of edge positions
Walks(es, n) == UNION {[1..m -> 1..Len(es)] : m \in 1..n}

IsClosedWalk(es, wk) ==
    /\ \A j \in 1..(Len(wk) - 1) : es[wk[j]].v = es[wk[j + 1]].u
    /\ es[wk[Len(wk)]].v = es[wk[1]].u

WalkWeight(es, wk) == SumSeq([j \in 1..Len(wk) |-> es[wk[j]].w])

\* the graph has a cycle of negative weight (a simple one has at most |ns| edges)
HasNegativeCycle(ns, es) ==
    \E wk \in Walks(es, Cardinality(ns)) : IsClosedWalk(es, wk) /\ WalkWeight(es, wk) < 0

\* the edges from c[j] to c[j+1] backed by pool ps[j]
HopEdges(c, ps, es, j) ==
    {k \in 1..Len(es) : es[k].u = c[j] /\ es[k].v = c[j + 1] /\ es[k].pool = ps[j]}

\* c is a closed token walk and ps lists, hop by hop, a pool backing that hop
BackedClosedWalk(c, ps, es) ==
    /\ Len(c) >= 2
    /\ c[1] = c[Len(c)]
    /\ Len(ps) = Len(c) - 1
    /\ \A j \in 1..Len(ps) : HopEdges(c, ps, es, j) # {}

\* sum of the weights of the hops of a backed closed walk
CycleWeight(c, ps, es) ==
    SumSeq([j \in 1..Len(ps) |-> es[CHOOSE k \in HopEdges(c, ps, es, j) : TRUE].w])

GenuineNegativeCycle(c, ps, es) ==
    BackedClosedWalk(c, ps, es) /\ CycleWeight(c, ps, es) < 0

ContractErrors == {"bad", "revert"}
OwnCalls == {"token0", "token1", "getReserves"}
MetaCalls == {"symbol0", "decimals0", "symbol1", "decimals1"}

\* the pool refreshed by the build step just taken
LastPool == pools[hist.last]
JustRefreshed == hist.step = "build" /\ hist.last \in 1..Len(pools)

EdgesOfPool(k) == {j \in 1..Len(edges) : edges[j].pool = k}

----------------------------------------------------------------------------
(* Properties *)

\* C1: a pool address marked invalid in an earlier iteration of the run adds
\* no node and no edge to the graph of a later iteration.
C1_InvalidStaysExcluded ==
    /\ \A k \in hist.contrib : pools[k].address \notin hist.wasInvalid
    /\ \A j \in 1..Len(edges) : pools[edges[j].pool].address \notin hist.wasInvalid

\* C2: an exception raised during an iteration is caught and the loop goes on
\* to the sleep (and from there to the next iteration).
C2_TickFailureCaught == hist.exc # "none" => pc = "sleep"

\* C3: a key found in two or more iterations has exactly one event while
\* verbose is off, and one event per iteration that found it while verbose is on.
C3_DedupUnlessVerbose ==
    \A key \in DOMAIN hist.detected :
        hist.detected[key] >= 2 =>
            Count(hist.emitted, key) = IF verbose THEN hist.detected[key] ELSE 1

C3_Witness ==
    \E key \in DOMAIN hist.detected :
        ~verbose /\ hist.detected[key] >= 2 /\ Count(hist.emitted, key) = 1

C3_WitnessVerbose ==
    \E key \in DOMAIN hist.detected :
        verbose /\ hist.detected[key] >= 2 /\ Count(hist.emitted, key) = hist.detected[key]

\* C4: when the built graph has a negative cycle, find_negative_cycle returns
\* (does not raise) a non-empty result that is a closed walk, each hop backed by
\* the pool listed for it, of negative total weight.
C4_FindsGenuineCycle ==
    (hist.step = "find" /\ HasNegativeCycle(nodes, edges)) =>
        /\ hist.exc = "none"
        /\ cyc # <<>>
        /\ GenuineNegativeCycle(cyc, cycp, edges)

\* C5: when the built graph has no negative cycle, no edge relaxes in the
\* detection pass and find_negative_cycle returns ([], []).
C5_NoCycleGivesEmpty ==
    (hist.step = "find" /\ ~HasNegativeCycle(nodes, edges)) =>
        /\ hist.exc = "none"
        /\ hist.hit = 0
        /\ cyc = <<>>
        /\ cycp = <<>>

C5_Witness ==
    /\ hist.step = "find"
    /\ Cardinality(nodes) = 3
    /\ Len(edges) = 6
    /\ \E j \in 1..Len(edges) : edges[j].w < 0
    /\ ~HasNegativeCycle(nodes, edges)
    /\ cyc = <<>>

\* C6: the gain of an opportunity event is the product of the prices of all
\* hops of the reported cycle: ln(gain) = -(sum of the weights of its hops).
C6_GainIsCycleProduct ==
    hist.event # None =>
        LET ev == Val(hist.event)
        IN  /\ BackedClosedWalk(ev.key, ev.pools, edges)
            /\ ev.gain = 0 - CycleWeight(ev.key, ev.pools, edges)

ExactlyOneZero(p) == (p.reserve0 = 0) # (p.reserve1 = 0)

HasEdge(u, v, k) ==
    \E j \in 1..Len(edges) : edges[j].u = u /\ edges[j].v = v /\ edges[j].pool = k

\* C7 as stated: of a valid pool with exactly one zero reserve, the direction
\* whose own reserve is zero has price 0 and no edge, the other direction has a
\* positive price and its edge, and both tokens are nodes.
C7_OtherDirectionKept ==
    (JustRefreshed /\ hist.exc = "none" /\ LastPool.is_valid /\ ExactlyOneZero(LastPool)) =>
        LET p == LastPool
            t0 == Val(p.token0)
            t1 == Val(p.token1)
        IN  /\ {t0, t1} \subseteq nodes
            /\ p.reserve0 = 0 =>
                  /\ price0_to_1(p).zero /\ ~HasEdge(t0, t1, hist.last)
                  /\ Positive(price1_to_0(p)) /\ HasEdge(t1, t0, hist.last)
            /\ p.reserve1 = 0 =>
                  /\ price1_to_0(p).zero /\ ~HasEdge(t1, t0, hist.last)
                  /\ Positive(price0_to_1(p)) /\ HasEdge(t0, t1, hist.last)

\* C7 amended: of a valid pool with exactly one zero reserve, both directions
\* have price 0 (one by the zero check on its own reserve, the other because
\* its numerator is zero), the pool adds no edge, and both tokens are nodes.
C7_ZeroReserveNoEdges ==
    (JustRefreshed /\ hist.exc = "none" /\ LastPool.is_valid /\ ExactlyOneZero(LastPool)) =>
        /\ {Val(LastPool.token0), Val(LastPool.token1)} \subseteq nodes
        /\ price0_to_1(LastPool).zero
        /\ price1_to_0(LastPool).zero
        /\ EdgesOfPool(hist.last) = {}

C7_Witness ==
    /\ JustRefreshed /\ hist.exc = "none" /\ LastPool.is_valid
    /\ LastPool.reserve0 = 0 /\ LastPool.reserve1 > 0
    /\ hist.raw = <<0, 1>>
    /\ EdgesOfPool(hist.last) = {}

\* C8: when a build returns, the node set is exactly the token0 and token1 of
\* the pools valid after their refresh, whatever their reserves, and no edge
\* belongs to an invalid pool.
C8_NodesAreValidPoolTokens ==
    pc = "find" =>
        /\ nodes = UNION {{Val(pools[k].token0), Val(pools[k].token1)} :
                            k \in {j \in 1..Len(pools) : pools[j].is_valid}}
        /\ hist.contrib = {j \in 1..Len(pools) : pools[j].is_valid}
        /\ \A j \in 1..Len(edges) : pools[edges[j].pool].is_valid

C8_Witness ==
    /\ pc = "find"
    /\ \E k \in 1..Len(pools) : ~pools[k].is_valid
    /\ \E k \in 1..Len(pools) :
          pools[k].is_valid /\ pools[k].reserve0 = 0 /\ pools[k].reserve1 = 0
    /\ Cardinality(nodes) = 2

\* C11: when a build returns, every address the source holds at the start of the
\* iteration has been refreshed in it, and joins the graph if it is valid.
C11_NewAddressPickedUp ==
    pc = "find" =>
        \A j \in 1..Len(source) :
            \E k \in 1..(pos - 1) :
                /\ k <= Len(pools)
                /\ pools[k].address = source[j]
                /\ pools[k].is_valid => k \in hist.contrib

\* C13: with an empty pool list the iteration raises nothing: the build gives
\* no node and no edge, the search gives ([], []), no event is emitted and the
\* monitor goes on to the sleep.
C13_EmptyListIsNoError ==
    (Len(pools) = 0 /\ pc \in {"find", "report", "sleep", "dead", "hung"}) =>
        /\ hist.exc = "none"
        /\ nodes = {} /\ edges = <<>>
        /\ cyc = <<>> /\ cycp = <<>>
        /\ hist.event = None
        /\ pc \in {"find", "report", "sleep"}

C13_Witness ==
    /\ Len(pools) = 0 /\ pc = "sleep" /\ hist.step = "report" /\ tick = 1
    /\ cyc = <<>> /\ hist.exc = "none"

\* C9: a contract-call failure (malformed output or revert) of token0(),
\* token1() or getReserves() marks the pool invalid and the refresh returns.
C9_ContractFailureInvalidates ==
    (JustRefreshed /\ \E f \in hist.fail : f[1] \in OwnCalls /\ f[2] \in ContractErrors) =>
        /\ hist.exc = "none"
        /\ ~LastPool.is_valid

\* C10: when only symbol()/decimals() reads fail, with a contract-call error,
\* the pool stays valid and joins the graph, a reserve whose token has no
\* decimals being stored unscaled.
C10_MetadataFailureTolerated ==
    (/\ JustRefreshed
     /\ hist.fail # {}
     /\ \A f \in hist.fail : f[1] \in MetaCalls /\ f[2] \in ContractErrors) =>
        /\ hist.exc = "none"
        /\ LastPool.is_valid
        /\ hist.last \in hist.contrib
        /\ LastPool.token0_decimals = None => LastPool.reserve0 = Scaled(hist.raw[1], 0)
        /\ LastPool.token1_decimals = None => LastPool.reserve1 = Scaled(hist.raw[2], 0)

\* whatever the provider would answer, a refresh of p calls nothing, raises
\* nothing and leaves p as it is
RefreshIsNoOp(p) ==
    \A plan \in FaultPlans, rp \in ReservePairs :
        LET r == update(variant, p, Answer(plan, rp[1], rp[2]), chain[p.address])
        IN  r.calls = {} /\ r.exc = "none" /\ r.pool = p

\* C18: the validity of a pool object changes only from valid to invalid and
\* only in the step that refreshes it; an invalid pool is never changed again,
\* and its refresh makes no provider call.
C18_InvalidIsFinal ==
    [][\A k \in (DOMAIN pools) \cap (DOMAIN pools') :
          /\ pools'[k].is_valid # pools[k].is_valid =>
                pools[k].is_valid /\ pc = "build" /\ pos = k
          /\ ~pools[k].is_valid =>
                /\ pools'[k] = pools[k]
                /\ (pc = "build" /\ pos = k) =>
                      /\ RefreshIsNoOp(pools[k])
                      /\ faults' = faults
                      /\ hist'.fail = {}]_vars

C18_Witness ==
    /\ JustRefreshed
    /\ ~LastPool.is_valid
    /\ LastPool.address \in hist.wasInvalid
    /\ hist.exc = "none"

\* what a caller of find_negative_cycle sees: the exception or the two lists
Outcome(r) == [exc |-> r.exc, cycle |-> r.cycle, pools |-> r.pools]

C19_IndexingIrrelevant ==
    hist.step = "find" =>
        \A i1, i2 \in Indexings(nodes) :
            Outcome(find_negative_cycle(variant, nodes, edges, i1))
              = Outcome(find_negative_cycle(variant, nodes, edges, i2))

C19_Witness ==
    /\ hist.step = "find"
    /\ Cardinality(nodes) = 3
    /\ Len(cycp) >= 2
    /\ \E i1, i2 \in Indexings(nodes) :
          /\ i1 # i2
          /\ find_negative_cycle(variant, nodes, edges, i1).parent
               # find_negative_cycle(variant, nodes, edges, i2).parent

Distinct(s) == \A i, j \in 1..Len(s) : s[i] = s[j] => i = j

C20_CollectionEnds == pc # "hung" /\ hist.exc # "hang"

C20_Witness ==
    /\ hist.step = "find"
    /\ hist.hit # 0
    /\ Len(cycp) >= 2
    /\ Cardinality(nodes) = 3

\* the node reached from vi by m predecessor steps, None when a step finds a
\* null predecessor
RECURSIVE StepsBack(_, _, _)
StepsBack(parent, vi, m) ==
    IF m = 0 THEN Some(vi)
    ELSE IF parent[vi] = None THEN None
    ELSE StepsBack(parent, parent[vi][1], m - 1)

\* x lies on a cycle of predecessor links
OnParentCycle(parent, x, n) == \E m \in 1..n : StepsBack(parent, x, m) = Some(x)

\* C14: when the detection pass finds a relaxing edge (u, v), each of the
\* len(nodes) predecessor steps from v finds a predecessor, and the node they
\* end on lies on a cycle of predecessor links.
C14_WalkBackLandsOnCycle ==
    (pc \in {"again", "done"} /\ Val(hist.first).hit # 0) =>
        LET r == Val(hist.first)
            n == Cardinality(nodes)
            v == Val(hist.order)[edges[r.hit].v]
            landing == StepsBack(r.parent, v, n)
        IN  /\ landing # None
            /\ OnParentCycle(r.parent, Val(landing), n)

\* C16: on a graph without negative cycle, find_negative_cycle runs exactly
\* len(nodes) - 1 relaxation passes before the detection pass.
C16_ExactlyNMinusOnePasses ==
    (pc \in {"again", "done"} /\ ~HasNegativeCycle(nodes, edges)) =>
        Val(hist.first).passes = Cardinality(nodes) - 1

\* edge e is what pool p, as it is now, gives in one of its two directions
EdgeOfPoolState(e, p) ==
    /\ p.is_valid /\ p.token0 # None /\ p.token1 # None
    /\ \/ /\ e.u = Val(p.token0) /\ e.v = Val(p.token1)
          /\ Positive(price0_to_1(p)) /\ e.w = NegLog(price0_to_1(p))
       \/ /\ e.u = Val(p.token1) /\ e.v = Val(p.token0)
          /\ Positive(price1_to_0(p)) /\ e.w = NegLog(price1_to_0(p))

\* the graph of the first k pools, assembled from the pools as they are now
RECURSIVE Assemble(_, _)
Assemble(ps, k) ==
    IF k = 0 THEN [nodes |-> {}, edges |-> <<>>]
    ELSE AddPool(Assemble(ps, k - 1), ps[k], k)

\* C17 as stated: while a pool of the build is still to be refreshed, no edge
\* has been appended.
C17_AllRefreshedBeforeEdges ==
    (pc = "build" /\ pos <= Len(pools)) => edges = <<>>

\* C17 amended: refresh and edge assembly alternate pool by pool.  Every edge
\* belongs to a pool whose refresh in this build has returned and is what that
\* pool's state gives; the graph so far is the one assembled from the pools
\* refreshed so far, so the graph a build returns is the one a build that
\* refreshes every pool first would return.
C17_EdgesFollowOwnRefresh ==
    /\ \A j \in 1..Len(edges) :
          /\ edges[j].pool \in 1..(pos - 1)
          /\ edges[j].pool <= Len(pools)
          /\ EdgeOfPoolState(edges[j], pools[edges[j].pool])
    /\ [nodes |-> nodes, edges |-> edges] = Assemble(pools, pos - 1)

C17_Witness ==
    /\ pc = "build" /\ pos = 2 /\ Len(pools) = 2
    /\ edges # <<>>
    /\ pools[2].token0 = None

====
